---- MODULE Spec2Model ----
(***************************************************************************)
(* TagService (app/service/tag.py): optimistic-concurrency mutation of tag *)
(* documents, wrapped by the add_to_history and audit decorators.          *)
(*                                                                         *)
(* A call is a coroutine; it is suspended only at its awaits (the store's  *)
(* get and _index, history_service.add, audit_service.add).  Each action   *)
(* below is one such await completing, together with the synchronous code  *)
(* that runs up to the next await.  Several calls are in flight at once.   *)
(***************************************************************************)
EXTENDS Integers, Sequences, FiniteSets, TLC

\* ------------------------------------------------------------------ bounds
MaxCalls == 2        \* calls started in one behaviour
MaxTime  == 1        \* largest value datetime.utcnow() returns

\* Each user has one TagService (self.user) and runs one call at a time; the
\* calls of different users are in flight together.
Users == {"alice", "bob"}

\* ------------------------------------------------------------ input values
None  == "None"      \* Python's None, the value of a cleared `state`
NoSeq == 0           \* _index called without sequence= (unconditional insert)
Nil   == <<>>        \* a local that holds nothing yet

CreatePayloads ==
    { [name |-> "n1"],
      [name |-> "n1", state |-> "draft", references |-> <<>>],
      [name |-> "n1", references |-> <<[id |-> "r1"], [id |-> "r2"]>>] }

UpdatePayloads ==
    { [name |-> "n2"],
      [author |-> "eve", created |-> 0, state |-> "draft"] }

ReferencePayloads == { [id |-> "r1", url |-> "x"] }

IncludeDeleted == BOOLEAN

\* FilteringArgs: the default (every document matches) or a term on a field
NoFiltering == <<>>
Filterings  == { NoFiltering, [name |-> "n2"] }

\* PaginationArgs
Paginations == { [limit |-> 1, offset |-> 0], [limit |-> 2, offset |-> 1] }

ReferenceIds == {"r1", "r2"}

\* The three error kinds of the service's contract, and what a collaborator
\* may raise besides them (a transport failure of the store or of a recorder).
ErrorKinds == {"NotFound", "Conflict", "ValidationFailure"}
CollaboratorErrors == {"StoreError", "HistoryError", "AuditError"}

VARIABLES
    store,     \* tags-latest: doc id -> [_version, _source], ids that exist only
    history,   \* what history_service.add received, in order
    audit,     \* what audit_service.add received, in order
    writes,    \* the _index requests the store received, in order
    calls,     \* user -> the coroutine of that user's service
    ncalls,    \* calls started so far
    ntags,     \* ids handed out by uuid4 so far
    now        \* the last value datetime.utcnow() returned

vars == <<store, history, audit, writes, calls, ncalls, ntags, now>>

\* ---------------------------------------------------------------- dicts
\* a | b of two dicts: the keys of b overwrite, the others are untouched
DictMerge(a, b) == [k \in DOMAIN a \cup DOMAIN b |-> IF k \in DOMAIN b THEN b[k] ELSE a[k]]

\* d[k] = v
DictSet(d, k, v) == [x \in DOMAIN d \cup {k} |-> IF x = k THEN v ELSE d[x]]

\* d.get(k, default)
DictGet(d, k, default) == IF k \in DOMAIN d THEN d[k] ELSE default

\* ---------------------------------------------------------------- clock
\* datetime.utcnow(): the clock has not moved since the last read, or it has
UtcNow == { now, IF now < MaxTime THEN now + 1 ELSE now }

\* ------------------------------------------------------ TagService helpers
_update_meta(payload, user, t) ==
    DictSet(DictSet(DictSet(payload, "updated", t), "editor", user), "state", None)

create_body(tag_data, user, t) ==
    LET stamped  == _update_meta(tag_data, user, t)
        authored == DictSet(stamped, "author", user)
    IN  DictSet(authored, "created", authored["updated"])

\* Mutant of create_reference_body: a reference whose id is already in the
\* list is not added again
create_reference_body_unique(existing, payload) ==
    LET refs == DictGet(existing, "references", <<>>)
    IN  IF \E i \in DOMAIN refs : refs[i].id = payload.id
          THEN DictSet(existing, "references", refs)
          ELSE DictSet(existing, "references", Append(refs, payload))

create_reference_body(existing, payload) ==
    LET refs == DictGet(existing, "references", <<>>)
    IN  DictSet(existing, "references", Append(refs, payload))

\* Mutant of update_body: the payload is merged over the stamped document
update_body_payload_last(existing, payload, user, t) ==
    DictMerge(_update_meta(existing, user, t), payload)

\* Mutant of update_body: the payload replaces the document
update_body_replace(existing, payload, user, t) ==
    _update_meta(payload, user, t)

update_body(existing, payload, user, t) ==
    _update_meta(DictMerge(existing, payload), user, t)

\* Mutant of delete_body: `created` is stamped as in create
delete_body_recreated(existing, user, t) ==
    LET tag == _update_meta(existing, user, t)
    IN  DictSet(DictSet(tag, "deleted", tag["updated"]), "created", tag["updated"])

\* Mutant of delete_body: a tag that has a `deleted` time keeps it
delete_body_first_deletion(existing, user, t) ==
    LET tag == _update_meta(existing, user, t)
    IN  IF "deleted" \in DOMAIN existing THEN tag ELSE DictSet(tag, "deleted", tag["updated"])

delete_body(existing, user, t) ==
    LET tag == _update_meta(existing, user, t)
    IN  DictSet(tag, "deleted", tag["updated"])

\* Mutant of without_reference: only the first reference with the id is dropped
RECURSIVE without_first_reference(_, _)
without_first_reference(refs, reference_id) ==
    IF refs = <<>> THEN <<>>
    ELSE IF Head(refs).id = reference_id
           THEN Tail(refs)
           ELSE <<Head(refs)>> \o without_first_reference(Tail(refs), reference_id)

RECURSIVE without_reference(_, _)
without_reference(refs, reference_id) ==
    IF refs = <<>> THEN <<>>
    ELSE LET rest == without_reference(Tail(refs), reference_id)
         IN  IF Head(refs).id # reference_id THEN <<Head(refs)>> \o rest ELSE rest

delete_reference_body(existing, reference_id) ==
    DictSet(existing, "references", without_reference(existing["references"], reference_id))

\* Which ops read utcnow() while computing their body (through _update_meta)
StampsMeta(op) == op \in {"create", "update", "delete"}

ClockReads(op) == IF StampsMeta(op) THEN UtcNow ELSE {now}

\* The body a call computes from the document it read
ComputeBody(c, existing, t) ==
    CASE c.op = "create_reference" -> create_reference_body(existing, c.payload)
      [] c.op = "update"           -> update_body(existing, c.payload, c.user, t)
      [] c.op = "delete"           -> delete_body(existing, c.user, t)
      [] c.op = "delete_reference" -> delete_reference_body(existing, c.reference_id)

\* Mutant of index_sequence: the write carries the token the document has in
\* the store now, not the one the caller supplied
index_sequence_current(c) ==
    IF c.op = "create" \/ c.tag_id \notin DOMAIN store
      THEN NoSeq
      ELSE store[c.tag_id]._version

\* The sequence= argument each op passes to _index
index_sequence(c) == IF c.op = "create" THEN NoSeq ELSE c.sequence

\* ------------------------------------------------------------ audit intents
create_audit_args(c, ret) ==
    [action |-> "create", component |-> "tag", message |-> "Creating new Tag",
     tag_id |-> c.tag_id, version |-> ret._version]

\* Mutant of create_reference_audit_args: the version audited is the token
\* the caller supplied, not the one the write returned
create_reference_audit_args_stale(c, ret) ==
    [action |-> "update", component |-> "tag", message |-> "modified",
     tag_id |-> c.tag_id, version |-> c.sequence,
     subcomponent |-> "references", subcomponent_action |-> "create"]

create_reference_audit_args(c, ret) ==
    [action |-> "update", component |-> "tag", message |-> "modified",
     tag_id |-> c.tag_id, version |-> ret._version,
     subcomponent |-> "references", subcomponent_action |-> "create"]

delete_reference_audit_args(c, ret) ==
    [action |-> "update", component |-> "tag", message |-> "reference deleted",
     tag_id |-> c.tag_id, version |-> ret._version,
     subcomponent |-> "references", subcomponent_action |-> "delete"]

\* update and delete call audit_service.add themselves, with the user
update_inline_audit(c, ret) ==
    [action |-> "update", component |-> "tag", message |-> "modified",
     user |-> c.user, tag_id |-> c.tag_id, version |-> ret._version]

delete_inline_audit(c, ret) ==
    [action |-> "delete", component |-> "tag", message |-> "deleted",
     user |-> c.user, tag_id |-> c.tag_id, version |-> ret._version]

\* ------------------------------------------------------------ the store
\* get(tag_id, sequence): the current document and its version token
store_get(tag_id) ==
    [_id |-> tag_id, _version |-> store[tag_id]._version, _source |-> store[tag_id]._source]

\* _index accepts the write: an insert of a new id, or a conditional write
\* whose token is the stored one
store_accepts(doc_id, sequence) ==
    IF sequence = NoSeq
      THEN doc_id \notin DOMAIN store
      ELSE doc_id \in DOMAIN store /\ store[doc_id]._version = sequence

\* the version token the store assigns to the write
store_next_version(doc_id) ==
    IF doc_id \in DOMAIN store THEN store[doc_id]._version + 1 ELSE 1

store_put(doc_id, body, version) ==
    [d \in DOMAIN store \cup {doc_id} |->
        IF d = doc_id THEN [_version |-> version, _source |-> body] ELSE store[d]]

\* ------------------------------------------------------------ the calls
Idle == [pc |-> "idle"]

Free(s)     == calls[s].pc \in {"idle", "done", "raised"}
Finished(s) == calls[s].pc \in {"done", "raised"}
Started(s)  == calls[s].pc # "idle"

\* A coroutine that ended keeps its arguments and its outcome, not its locals
Raise(c, e) == [c EXCEPT !.pc = "raised", !.err = e, !.body = Nil, !.ret = Nil,
                         !.audit_args = Nil]

Return(c, ret) == [c EXCEPT !.pc = "done", !.ret = ret, !.body = Nil, !.audit_args = Nil]

\* The `sequence` a caller supplies: the version token of the document as the
\* caller last read it, which is stale by the time another call has committed
\* (1 for a document that is not there to read)
ReadToken(tag_id) ==
    IF tag_id \in DOMAIN store THEN store[tag_id]._version ELSE 1

NewCall(user, op, tag_id, sequence, payload, reference_id) ==
    [pc |-> "get", cid |-> ncalls + 1, op |-> op, user |-> user, tag_id |-> tag_id,
     sequence |-> sequence, payload |-> payload, reference_id |-> reference_id,
     body |-> Nil, ret |-> Nil, audit_args |-> Nil, err |-> ""]

\* The index the service is constructed over: empty, or holding a tag that an
\* earlier create(tag_data) of alice wrote at time 0, or that tag soft-deleted
\* by an earlier delete of alice
InitialStores ==
    { <<>> } \cup
    { (1 :> [_version |-> 1, _source |-> create_body(tag_data, "alice", 0)]) :
          tag_data \in CreatePayloads } \cup
    { (1 :> [_version |-> 2,
             _source |-> delete_body(create_body([name |-> "n1"], "alice", 0), "alice", 0)]) }

Init ==
    /\ store \in InitialStores
    /\ history = <<>>
    /\ audit = <<>>
    /\ writes = <<>>
    /\ calls = [s \in Users |-> Idle]
    /\ ncalls = 0
    /\ ntags = Cardinality(DOMAIN store)
    /\ now = 0

\* create(tag_data) up to its await of _index
InvokeCreate(s) ==
    /\ Free(s)
    /\ ncalls < MaxCalls
    /\ \E tag_data \in CreatePayloads, t \in UtcNow :
         /\ calls' = [calls EXCEPT ![s] =
               [NewCall(s, "create", ntags + 1, NoSeq, tag_data, "") EXCEPT
                   !.pc = "index", !.body = create_body(tag_data, s, t)]]
         /\ now' = t
    /\ ncalls' = ncalls + 1
    /\ ntags' = ntags + 1
    /\ UNCHANGED <<store, history, audit, writes>>

\* the other four mutations up to their await of get
Invoke(s) ==
    /\ Free(s)
    /\ ncalls < MaxCalls
    /\ \E tag_id \in 1..ntags :
         LET sequence == ReadToken(tag_id) IN
         \/ \E payload \in ReferencePayloads :
              calls' = [calls EXCEPT ![s] =
                  NewCall(s, "create_reference", tag_id, sequence, payload, "")]
         \/ \E payload \in UpdatePayloads :
              calls' = [calls EXCEPT ![s] =
                  NewCall(s, "update", tag_id, sequence, payload, "")]
         \/ calls' = [calls EXCEPT ![s] =
                  NewCall(s, "delete", tag_id, sequence, Nil, "")]
         \/ \E reference_id \in ReferenceIds :
              calls' = [calls EXCEPT ![s] =
                  NewCall(s, "delete_reference", tag_id, sequence, Nil, reference_id)]
    /\ ncalls' = ncalls + 1
    /\ UNCHANGED <<store, history, audit, writes, ntags, now>>

\* get returns the document; the call computes its body up to its await of _index
Get(s) ==
    LET c == calls[s] IN
    /\ c.pc = "get"
    /\ c.tag_id \in DOMAIN store
    /\ LET existing == store_get(c.tag_id)._source IN
       \/ /\ c.op = "delete_reference"
          /\ "references" \notin DOMAIN existing           \* tag["references"]
          /\ calls' = [calls EXCEPT ![s] = Raise(c, "KeyError")]
          /\ now' = now
       \/ /\ c.op = "delete_reference"
          /\ "references" \in DOMAIN existing
          /\ existing["references"] = <<>>                  \* not tag["references"]
          /\ calls' = [calls EXCEPT ![s] = Raise(c, "NotFound")]
          /\ now' = now
       \/ /\ c.op = "delete_reference" =>
                "references" \in DOMAIN existing /\ existing["references"] # <<>>
          /\ \E t \in ClockReads(c.op) :
               /\ calls' = [calls EXCEPT ![s] =
                      [c EXCEPT !.pc = "index", !.body = ComputeBody(c, existing, t)]]
               /\ now' = t
    /\ UNCHANGED <<store, history, audit, writes, ncalls, ntags>>

\* get raises: the document does not exist, or the store fails
GetFail(s) ==
    LET c == calls[s] IN
    /\ c.pc = "get"
    /\ \/ /\ c.tag_id \notin DOMAIN store
          /\ calls' = [calls EXCEPT ![s] = Raise(c, "NotFound")]
       \/ calls' = [calls EXCEPT ![s] = Raise(c, "StoreError")]
    /\ UNCHANGED <<store, history, audit, writes, ncalls, ntags, now>>

\* What the decorated method returns to add_to_history.inner once _index (and,
\* in update and delete, the inline audit_service.add) has returned
wrapped_return(c, ret) ==
    CASE c.op = "create" ->
             [tuple |-> TRUE, items |-> <<create_audit_args(c, ret), ret>>]
      [] c.op = "create_reference" ->
             [tuple |-> TRUE, items |-> <<create_reference_audit_args(c, ret), ret>>]
      [] c.op = "delete_reference" ->
             [tuple |-> TRUE, items |-> <<delete_reference_audit_args(c, ret), ret>>]
      [] c.op \in {"update", "delete"} ->
             [tuple |-> FALSE, items |-> ret]

\* How many values iterating the returned object yields: the items of a tuple,
\* the keys of a dict
IterLen(v) == IF v.tuple THEN Len(v.items) ELSE Cardinality(DOMAIN v.items)

\* audit_args, ret = await wrapped(...) in add_to_history.inner, then the call
\* of history_service.add(ret).  The ES response has three keys here, so a dict
\* is never unpacked into its keys.
add_to_history_unpack(c, v) ==
    IF IterLen(v) = 2
      THEN [c EXCEPT !.pc = "history", !.audit_args = v.items[1], !.ret = v.items[2]]
      ELSE Raise(c, "ValueError")

\* update and delete await audit_service.add before they return
AuditsInline(op) == op \in {"update", "delete"}

\* An _index request as the store saw it: accepted with the version it
\* assigned, or rejected (version 0)
WriteRequest(c, accepted, version) ==
    [cid |-> c.cid, tag_id |-> c.tag_id, token |-> index_sequence(c), body |-> c.body,
     accepted |-> accepted, version |-> version]

\* _index accepts the write
Index(s) ==
    LET c       == calls[s]
        version == store_next_version(c.tag_id)
        ret     == [_id |-> c.tag_id, _version |-> version, _source |-> c.body]
    IN
    /\ c.pc = "index"
    /\ store_accepts(c.tag_id, index_sequence(c))
    /\ store' = store_put(c.tag_id, c.body, version)
    /\ writes' = Append(writes, WriteRequest(c, TRUE, version))
    /\ \/ /\ AuditsInline(c.op)
          /\ calls' = [calls EXCEPT ![s] = [c EXCEPT !.pc = "inline_audit", !.ret = ret]]
       \/ /\ ~AuditsInline(c.op)
          /\ calls' = [calls EXCEPT ![s] = add_to_history_unpack(c, wrapped_return(c, ret))]
    /\ UNCHANGED <<history, audit, ncalls, ntags, now>>

\* Mutant of IndexFail: the wrapper records the audit intent in a finally
\* block, so a rejected write is audited all the same
IndexFail_AuditedAnyway(s) ==
    LET c == calls[s] IN
    /\ c.pc = "index"
    /\ \/ /\ ~store_accepts(c.tag_id, index_sequence(c))
          /\ calls' = [calls EXCEPT ![s] = Raise(c, "Conflict")]
       \/ calls' = [calls EXCEPT ![s] = Raise(c, "StoreError")]
    /\ writes' = Append(writes, WriteRequest(c, FALSE, 0))
    /\ audit' = Append(audit, [cid |-> c.cid, args |-> [user |-> c.user, tag_id |-> c.tag_id]])
    /\ UNCHANGED <<store, history, ncalls, ntags, now>>

\* _index raises: the token is stale, or the store fails
IndexFail(s) ==
    LET c == calls[s] IN
    /\ c.pc = "index"
    /\ \/ /\ ~store_accepts(c.tag_id, index_sequence(c))
          /\ calls' = [calls EXCEPT ![s] = Raise(c, "Conflict")]
       \/ calls' = [calls EXCEPT ![s] = Raise(c, "StoreError")]
    /\ writes' = Append(writes, WriteRequest(c, FALSE, 0))
    /\ UNCHANGED <<store, history, audit, ncalls, ntags, now>>

\* the audit_service.add inside update and delete returns; the method returns ret
InlineAudit(s) ==
    LET c     == calls[s]
        entry == IF c.op = "update" THEN update_inline_audit(c, c.ret)
                                    ELSE delete_inline_audit(c, c.ret)
    IN
    /\ c.pc = "inline_audit"
    /\ audit' = Append(audit, [cid |-> c.cid, args |-> entry])
    /\ calls' = [calls EXCEPT ![s] = add_to_history_unpack(c, wrapped_return(c, c.ret))]
    /\ UNCHANGED <<store, history, writes, ncalls, ntags, now>>

InlineAuditFail(s) ==
    LET c == calls[s] IN
    /\ c.pc = "inline_audit"
    /\ calls' = [calls EXCEPT ![s] = Raise(c, "AuditError")]
    /\ UNCHANGED <<store, history, audit, writes, ncalls, ntags, now>>

\* history_service.add(ret) returns; audit.inner stamps the user and awaits
\* audit_service.add
HistoryAdd(s) ==
    LET c == calls[s] IN
    /\ c.pc = "history"
    /\ history' = Append(history, [cid |-> c.cid, doc |-> c.ret])
    /\ calls' = [calls EXCEPT ![s] =
          [c EXCEPT !.pc = "audit", !.audit_args = DictSet(c.audit_args, "user", c.user)]]
    /\ UNCHANGED <<store, audit, writes, ncalls, ntags, now>>

\* Mutant of HistoryFail: audit.inner catches the failure of the history
\* recorder, audits the mutation and raises the failure afterwards
HistoryFail_AuditedAnyway(s) ==
    LET c == calls[s] IN
    /\ c.pc = "history"
    /\ audit' = Append(audit, [cid |-> c.cid, args |-> DictSet(c.audit_args, "user", c.user)])
    /\ calls' = [calls EXCEPT ![s] = Raise(c, "HistoryError")]
    /\ UNCHANGED <<store, history, writes, ncalls, ntags, now>>

\* history_service.add raises; the error passes through audit.inner
HistoryFail(s) ==
    LET c == calls[s] IN
    /\ c.pc = "history"
    /\ calls' = [calls EXCEPT ![s] = Raise(c, "HistoryError")]
    /\ UNCHANGED <<store, history, audit, writes, ncalls, ntags, now>>

\* audit_service.add(**audit_args) returns; the call returns ret
AuditAdd(s) ==
    LET c == calls[s] IN
    /\ c.pc = "audit"
    /\ audit' = Append(audit, [cid |-> c.cid, args |-> c.audit_args])
    /\ calls' = [calls EXCEPT ![s] = Return(c, c.ret)]
    /\ UNCHANGED <<store, history, writes, ncalls, ntags, now>>

AuditFail(s) ==
    LET c == calls[s] IN
    /\ c.pc = "audit"
    /\ calls' = [calls EXCEPT ![s] = Raise(c, "AuditError")]
    /\ UNCHANGED <<store, history, audit, writes, ncalls, ntags, now>>

\* ------------------------------------------------------------ count and list
\* A structural filter is the set of fields a document must not have: {} is
\* the query None, which every document matches.
MatchAll == {}
MustNotExist(field) == {field}

\* Mutant of count_query: deleted tags are excluded when they are asked for
count_query_inverted(include_deleted) ==
    IF include_deleted THEN MustNotExist("deleted") ELSE MatchAll

\* the query count passes to the store
count_query(include_deleted) ==
    IF ~include_deleted THEN MustNotExist("deleted") ELSE MatchAll

\* the extra_filter list passes to the store beside the caller's filtering
list_extra_filter(include_deleted) ==
    IF ~include_deleted THEN MustNotExist("deleted") ELSE MatchAll

\* the documents a structural filter and a caller's filtering select
store_matches(filtering, structural) ==
    { d \in DOMAIN store :
        /\ \A f \in structural : f \notin DOMAIN store[d]._source
        /\ \A k \in DOMAIN filtering :
              k \in DOMAIN store[d]._source /\ store[d]._source[k] = filtering[k] }

store_count(query) == Cardinality(store_matches(NoFiltering, query))

RECURSIVE Ascending(_)
Ascending(ids) ==
    IF ids = {} THEN <<>>
    ELSE LET least == CHOOSE i \in ids : \A j \in ids : i <= j
         IN  <<least>> \o Ascending(ids \ {least})

\* search: the page of the matching documents, in the order of the sorting
store_search(pagination, filtering, extra_filter) ==
    LET hits  == Ascending(store_matches(filtering, extra_filter))
        first == pagination.offset + 1
        last  == IF pagination.offset + pagination.limit < Len(hits)
                   THEN pagination.offset + pagination.limit ELSE Len(hits)
    IN  [limit |-> pagination.limit, offset |-> pagination.offset,
         results |-> SubSeq(hits, first, last)]

\* count(include_deleted)
count(include_deleted) == store_count(count_query(include_deleted))

\* Mutant of total_count: the count stops at the size of a page
total_count_of_page(pagination, filtering, include_deleted) ==
    IF count(include_deleted) < pagination.limit
      THEN count(include_deleted) ELSE pagination.limit

\* the total_count of list(pagination, filtering, sorting, include_deleted)
total_count(pagination, filtering, include_deleted) == count(include_deleted)

NewRead(user, op, args) ==
    [pc |-> "count", cid |-> ncalls + 1, op |-> op, user |-> user,
     include_deleted |-> args.include_deleted, pagination |-> args.pagination,
     filtering |-> args.filtering, total_count |-> 0, err |-> ""]

\* count and list up to their await of the store's count
InvokeRead(s) ==
    /\ Free(s)
    /\ ncalls < MaxCalls
    /\ \E include_deleted \in IncludeDeleted :
         \/ calls' = [calls EXCEPT ![s] =
                NewRead(s, "count", [include_deleted |-> include_deleted,
                                     pagination |-> Nil, filtering |-> Nil])]
         \/ \E pagination \in Paginations, filtering \in Filterings :
              calls' = [calls EXCEPT ![s] =
                NewRead(s, "list", [include_deleted |-> include_deleted,
                                    pagination |-> pagination, filtering |-> filtering])]
    /\ ncalls' = ncalls + 1
    /\ UNCHANGED <<store, history, audit, writes, ntags, now>>

\* a count or a list that ended: it has a return value once it has returned
ReadReturn(c, ret) ==
    [pc |-> "done", cid |-> c.cid, op |-> c.op, user |-> c.user,
     include_deleted |-> c.include_deleted, pagination |-> c.pagination,
     filtering |-> c.filtering, total_count |-> 0, err |-> "", ret |-> ret]

ReadRaise(c, e) ==
    [c EXCEPT !.pc = "raised", !.err = e, !.total_count = 0]

\* Mutant of Count: count is recorded in the audit log as the mutations are
Count_Audited(s) ==
    LET c == calls[s] IN
    /\ c.pc = "count"
    /\ audit' = Append(audit, [cid |-> c.cid, args |-> [action |-> "count", user |-> c.user]])
    /\ calls' = [calls EXCEPT ![s] =
          IF c.op = "count"
            THEN ReadReturn(c, count(c.include_deleted))
            ELSE [c EXCEPT !.pc = "search",
                           !.total_count =
                               total_count(c.pagination, c.filtering, c.include_deleted)]]
    /\ UNCHANGED <<store, history, writes, ncalls, ntags, now>>

\* the store's count returns: count returns it, list goes on to its listing
Count(s) ==
    LET c == calls[s] IN
    /\ c.pc = "count"
    /\ calls' = [calls EXCEPT ![s] =
          IF c.op = "count"
            THEN ReadReturn(c, count(c.include_deleted))
            ELSE [c EXCEPT !.pc = "search",
                           !.total_count =
                               total_count(c.pagination, c.filtering, c.include_deleted)]]
    /\ UNCHANGED <<store, history, audit, writes, ncalls, ntags, now>>

\* the store's listing returns: list returns its 4-tuple
Search(s) ==
    LET c == calls[s]
        page == store_search(c.pagination, c.filtering, list_extra_filter(c.include_deleted))
    IN
    /\ c.pc = "search"
    /\ calls' = [calls EXCEPT ![s] =
          ReadReturn(c, [total_count |-> c.total_count, limit |-> page.limit,
                         offset |-> page.offset, results |-> page.results])]
    /\ UNCHANGED <<store, history, audit, writes, ncalls, ntags, now>>

\* the store fails on a count or on a listing
QueryFail(s) ==
    LET c == calls[s] IN
    /\ c.pc \in {"count", "search"}
    /\ calls' = [calls EXCEPT ![s] = ReadRaise(c, "StoreError")]
    /\ UNCHANGED <<store, history, audit, writes, ncalls, ntags, now>>

Next ==
    \E s \in Users :
        \/ InvokeCreate(s)
        \/ Invoke(s)
        \/ Get(s)
        \/ GetFail(s)
        \/ Index(s)
        \/ IndexFail(s)
        \/ InlineAudit(s)
        \/ InlineAuditFail(s)
        \/ HistoryAdd(s)
        \/ HistoryFail(s)
        \/ AuditAdd(s)
        \/ AuditFail(s)
        \/ InvokeRead(s)
        \/ Count(s)
        \/ Search(s)
        \/ QueryFail(s)

Spec == Init /\ [][Next]_vars

\* ------------------------------------------------------------ observations
HistoryCount(cid) == Cardinality({i \in DOMAIN history : history[i].cid = cid})
AuditCount(cid)   == Cardinality({i \in DOMAIN audit : audit[i].cid = cid})
Committed(cid)    == \E i \in DOMAIN writes : writes[i].cid = cid /\ writes[i].accepted
WriteAttempts(cid) == Cardinality({i \in DOMAIN writes : writes[i].cid = cid})

\* the accepted write of a call that committed
CommitOf(cid) ==
    writes[CHOOSE i \in DOMAIN writes : writes[i].cid = cid /\ writes[i].accepted]

\* A collaborator raised into the call (the store's NotFound and Conflict, or a
\* failure of the store or of a recorder)
CollaboratorFailed(c) == c.pc = "raised" /\ c.err \in CollaboratorErrors \cup ErrorKinds

\* ------------------------------------------------------------------ claims

\* C1: a mutation call whose store read, store write and recorder calls all
\* succeed has appended exactly one history snapshot and exactly one audit entry
\* by the time it ends.
C1_ExactlyOneHistoryAndOneAudit ==
    \A s \in Users :
        (Finished(s) /\ Committed(calls[s].cid) /\ ~CollaboratorFailed(calls[s]))
            => HistoryCount(calls[s].cid) = 1 /\ AuditCount(calls[s].cid) = 1

\* C2: the audit recorder is never invoked for a call before the history
\* recorder has completed for it: a call never has more audit entries than
\* history snapshots.
C2_AuditNeverAheadOfHistory ==
    \A s \in Users :
        Started(s) => AuditCount(calls[s].cid) <= HistoryCount(calls[s].cid)

\* C3: a call that ended has returned the result document or raised one of
\* NotFound, Conflict, ValidationFailure (a collaborator's own failure passes
\* through unmodified); a call whose collaborators all succeeded has returned.
C3_ReturnsOrRaisesDocumentedError ==
    \A s \in Users :
        Finished(s) =>
            \/ /\ calls[s].pc = "done"
               /\ calls[s].op = "count"
               /\ calls[s].ret \in Nat
            \/ /\ calls[s].pc = "done"
               /\ calls[s].op = "list"
               /\ DOMAIN calls[s].ret = {"total_count", "limit", "offset", "results"}
            \/ /\ calls[s].pc = "done"
               /\ calls[s].op \notin {"count", "list"}
               /\ calls[s].ret._id = calls[s].tag_id
               /\ calls[s].ret._version = CommitOf(calls[s].cid).version
            \/ /\ calls[s].pc = "raised"
               /\ calls[s].err \in ErrorKinds \cup CollaboratorErrors

\* C4: when history_service.add fails, the call raises that error, no audit
\* entry (and no history snapshot) exists for it, and the write it made is
\* still in the store: the document is at the version it wrote, holding its
\* body, or at a later one.
C4_HistoryFailureSkipsAudit ==
    \A s \in Users :
        (calls[s].pc = "raised" /\ calls[s].err = "HistoryError") =>
            /\ AuditCount(calls[s].cid) = 0
            /\ HistoryCount(calls[s].cid) = 0
            /\ Committed(calls[s].cid)
            /\ LET w == CommitOf(calls[s].cid) IN
               /\ w.tag_id \in DOMAIN store
               /\ store[w.tag_id]._version >= w.version
               /\ store[w.tag_id]._version = w.version => store[w.tag_id]._source = w.body

C4_Witness ==
    \E s \in Users :
        /\ calls[s].pc = "raised" /\ calls[s].err = "HistoryError"
        /\ Committed(calls[s].cid)
        /\ store[calls[s].tag_id]._version = CommitOf(calls[s].cid).version

\* C5: when the store read or the store write of a call fails (NotFound,
\* Conflict or another store error), the call raises that error, the store
\* accepted no write of it, and neither recorder received anything for it.
C5_StoreFailureRecordsNothing ==
    \A s \in Users :
        (calls[s].pc = "raised" /\ calls[s].err \in {"NotFound", "Conflict", "StoreError"}) =>
            /\ ~Committed(calls[s].cid)
            /\ HistoryCount(calls[s].cid) = 0
            /\ AuditCount(calls[s].cid) = 0

C5_Witness ==
    \E s \in Users :
        /\ calls[s].pc = "raised" /\ calls[s].err = "Conflict" /\ calls[s].op = "update"
        /\ WriteAttempts(calls[s].cid) = 1
        /\ store[calls[s].tag_id]._version > calls[s].sequence

\* ---- conditional writes

ConditionalOps == {"create_reference", "update", "delete", "delete_reference"}

\* C6: of the calls that target the same tag with the same version token at
\* most one commits its write; once one has, every other one that ends has
\* raised (Conflict when its write reached the store), the store accepted no
\* write of it, it tried the write at most once and neither recorder received
\* anything for it.
C6_OneWriterPerToken ==
    \A s1 \in Users, s2 \in Users :
        ( /\ s1 # s2
          /\ Started(s1) /\ Started(s2)
          /\ calls[s1].op \in ConditionalOps /\ calls[s2].op \in ConditionalOps
          /\ calls[s1].tag_id = calls[s2].tag_id
          /\ calls[s1].sequence = calls[s2].sequence
          /\ Committed(calls[s1].cid) )
        => /\ ~Committed(calls[s2].cid)
           /\ WriteAttempts(calls[s2].cid) <= 1
           /\ HistoryCount(calls[s2].cid) = 0
           /\ AuditCount(calls[s2].cid) = 0
           /\ Finished(s2) => calls[s2].pc = "raised"
           /\ (Finished(s2) /\ WriteAttempts(calls[s2].cid) = 1)
                 => calls[s2].err \in {"Conflict", "StoreError"}

C6_Witness ==
    \E s1 \in Users, s2 \in Users :
        /\ s1 # s2
        /\ calls[s1].pc \in {"history", "inline_audit"}
        /\ calls[s2].pc = "raised" /\ calls[s2].err = "Conflict"
        /\ calls[s2].op \in ConditionalOps
        /\ calls[s1].tag_id = calls[s2].tag_id
        /\ calls[s1].sequence = calls[s2].sequence

\* C7: delete_reference on an existing tag with a current token, whose
\* `references` is absent or empty, raises NotFound, sends no write to the
\* store and gives nothing to either recorder.
C7_DeleteReferenceWithoutReferencesIsNotFound ==
    [][ \A s \in Users :
          ( /\ calls[s].pc = "get"
            /\ calls[s].op = "delete_reference"
            /\ calls[s].tag_id \in DOMAIN store
            /\ store[calls[s].tag_id]._version = calls[s].sequence
            /\ DictGet(store[calls[s].tag_id]._source, "references", <<>>) = <<>>
            /\ calls'[s].pc # "get"
            /\ calls'[s].err # "StoreError" )
          => /\ calls'[s].pc = "raised"
             /\ calls'[s].err = "NotFound"
             /\ store' = store /\ writes' = writes
             /\ history' = history /\ audit' = audit ]_vars

\* ---- what a committed write holds

\* the step is the store accepting the write of s
Commits(s) ==
    /\ calls[s].pc = "index"
    /\ Len(writes') = Len(writes) + 1
    /\ writes'[Len(writes')].cid = calls[s].cid
    /\ writes'[Len(writes')].accepted

\* the times a call read from the clock while it computed its body
TimesRead(c) == IF StampsMeta(c.op) THEN {c.body["updated"]} ELSE {}

\* C8: every committed write of a mutation holds a document whose `editor` is
\* the acting user, whose `updated` is a time that call read and whose `state`
\* is unset.
C8_EveryMutationStampsMeta ==
    [][ \A s \in Users :
          Commits(s) =>
              LET doc == store'[calls[s].tag_id]._source IN
              /\ doc["editor"] = calls[s].user
              /\ doc["state"] = None
              /\ doc["updated"] \in TimesRead(calls[s]) ]_vars

\* the accepted writes of a tag, as positions in `writes`
AcceptedWrites(tag_id) ==
    {i \in DOMAIN writes : writes[i].accepted /\ writes[i].tag_id = tag_id}

\* j is the next accepted write of the tag after i
NextWrite(i, j) ==
    /\ i < j
    /\ j \in AcceptedWrites(writes[i].tag_id)
    /\ \A k \in AcceptedWrites(writes[i].tag_id) : ~(i < k /\ k < j)

\* C9: every audit entry carries as `version` the version token the write of
\* its call returned, and that token is the one the next conditional write of
\* the tag was made with.
C9_AuditVersionIsWriteToken ==
    \A a \in DOMAIN audit :
        \E i \in DOMAIN writes :
            /\ writes[i].accepted
            /\ writes[i].cid = audit[a].cid
            /\ writes[i].tag_id = audit[a].args.tag_id
            /\ writes[i].version = audit[a].args.version
            /\ \A j \in DOMAIN writes : NextWrite(i, j) => writes[j].token = audit[a].args.version

C9_Witness ==
    \E a \in DOMAIN audit :
        /\ audit[a].args.action = "update"
        /\ DictGet(audit[a].args, "subcomponent_action", "") = "create"
        /\ \E i \in DOMAIN writes, j \in DOMAIN writes :
              /\ writes[i].cid = audit[a].cid
              /\ writes[i].accepted
              /\ NextWrite(i, j)
              /\ writes[j].token = audit[a].args.version

\* the step is the store accepting an update whose payload names one of keys
UpdateOverwrites(s, keys) ==
    Commits(s) /\ calls[s].op = "update" /\ DOMAIN calls[s].payload \cap keys # {}

\* C10 as stated: whatever the calls, a stored tag keeps its id, its `author`
\* and its `created`.
C10_AuthorAndCreatedNeverChange ==
    [][ \A t \in DOMAIN store :
          /\ t \in DOMAIN store'
          /\ store'[t]._source["author"] = store[t]._source["author"]
          /\ store'[t]._source["created"] = store[t]._source["created"] ]_vars

\* C10 amended: a stored tag keeps its id; it keeps its `author` and its
\* `created` in every step but the commit of an update whose payload has an
\* `author` or a `created` key.
C10_AuthorAndCreatedKeptUnlessInPayload ==
    [][ \A t \in DOMAIN store :
          /\ t \in DOMAIN store'
          /\ (\A s \in Users : ~(UpdateOverwrites(s, {"author"}) /\ calls[s].tag_id = t))
                => store'[t]._source["author"] = store[t]._source["author"]
          /\ (\A s \in Users : ~(UpdateOverwrites(s, {"created"}) /\ calls[s].tag_id = t))
                => store'[t]._source["created"] = store[t]._source["created"] ]_vars

C10_Witness ==
    \E t \in DOMAIN store :
        /\ store[t]._version = 3
        /\ "deleted" \in DOMAIN store[t]._source
        /\ store[t]._source["name"] = "n2"
        /\ store[t]._source["author"] = "alice"
        /\ store[t]._source["created"] = 0
        /\ store[t]._source["updated"] = 1

\* ------------------------------------------------------------ C11 .. C15
\* the fields _update_meta stamps
MetaFields == {"updated", "editor", "state"}

\* C11: the commit of an update writes a document in which every key of the
\* payload holds the payload's value and every other key of the document that
\* was stored before holds its previous value, except that `updated`,
\* `editor` and `state` are stamped whatever the payload says: `editor` is the
\* acting user, `state` is unset and `updated` is a clock value not older than
\* the previous one.
C11_UpdateWritesShallowMerge ==
    [][ \A s \in Users :
          Commits(s) /\ calls[s].op = "update" =>
              LET old     == store[calls[s].tag_id]._source
                  new     == store'[calls[s].tag_id]._source
                  payload == calls[s].payload
              IN  /\ DOMAIN new = DOMAIN old \cup DOMAIN payload \cup MetaFields
                  /\ \A k \in DOMAIN payload \ MetaFields : new[k] = payload[k]
                  /\ \A k \in DOMAIN old \ (DOMAIN payload \cup MetaFields) :
                         new[k] = old[k]
                  /\ new["editor"] = calls[s].user
                  /\ new["state"] = None
                  /\ new["updated"] >= old["updated"]
                  /\ new["updated"] <= now ]_vars

\* an update whose payload names `state` committed over a tag with references:
\* the payload's author is stored, the references are kept, `state` is unset
C11_Witness ==
    \E s \in Users :
        /\ Started(s)
        /\ calls[s].op = "update"
        /\ "state" \in DOMAIN calls[s].payload
        /\ Committed(calls[s].cid)
        /\ LET doc == store[calls[s].tag_id]._source IN
           /\ store[calls[s].tag_id]._version = 2
           /\ doc["author"] = "eve"
           /\ doc["name"] = "n1"
           /\ "references" \in DOMAIN doc
           /\ Len(doc["references"]) = 2
           /\ doc["state"] = None
           /\ doc["editor"] = "bob"
           /\ doc["updated"] = 1

\* the references whose id is not reference_id, in their order
OtherReferences(refs, reference_id) ==
    SelectSeq(refs, LAMBDA r : r.id # reference_id)

\* C12: the commit of a delete_reference writes as `references` the list that
\* was stored before without every element whose id is reference_id, the rest
\* in their order (the same list when no element has that id); removing the
\* same id from the written list again leaves it as it is.
C12_DeleteReferenceFiltersById ==
    [][ \A s \in Users :
          Commits(s) /\ calls[s].op = "delete_reference" =>
              LET old == store[calls[s].tag_id]._source["references"]
                  new == store'[calls[s].tag_id]._source["references"]
                  rid == calls[s].reference_id
              IN  /\ old # <<>>
                  /\ new = OtherReferences(old, rid)
                  /\ (\A i \in DOMAIN old : old[i].id # rid) => new = old
                  /\ OtherReferences(new, rid) = new ]_vars

\* delete_reference of r1 returned twice on the tag created with r1 and r2:
\* the second call found no r1, wrote [r2] again and raised nothing
C12_Witness ==
    /\ \A s \in Users :
          /\ calls[s].pc = "done"
          /\ calls[s].op = "delete_reference"
          /\ calls[s].reference_id = "r1"
          /\ calls[s].tag_id = 1
    /\ store[1]._version = 3
    /\ store[1]._source["references"] = <<[id |-> "r2"]>>
    /\ \A i \in DOMAIN writes :
          writes[i].accepted /\ writes[i].body["references"] = <<[id |-> "r2"]>>

\* C13: the commit of a create_reference writes as `references` the list that
\* was stored before (the empty list when the document had none) with the
\* payload as its new last element, whether or not a reference of that id is
\* in the list already, and writes every other field as it was stored.
C13_CreateReferenceAppends ==
    [][ \A s \in Users :
          Commits(s) /\ calls[s].op = "create_reference" =>
              LET old  == store[calls[s].tag_id]._source
                  new  == store'[calls[s].tag_id]._source
                  refs == IF "references" \in DOMAIN old THEN old["references"] ELSE <<>>
              IN  /\ DOMAIN new = DOMAIN old \cup {"references"}
                  /\ Len(new["references"]) = Len(refs) + 1
                  /\ new["references"][Len(refs) + 1] = calls[s].payload
                  /\ \A i \in DOMAIN refs : new["references"][i] = refs[i]
                  /\ \A k \in DOMAIN old \ {"references"} : new[k] = old[k] ]_vars

\* create_reference returned on the tag created with r1 and r2: the payload,
\* a second reference of id r1, is the third element
C13_Witness ==
    \E s \in Users :
        /\ calls[s].pc = "done"
        /\ calls[s].op = "create_reference"
        /\ store[calls[s].tag_id]._version = 2
        /\ store[calls[s].tag_id]._source["references"] =
               <<[id |-> "r1"], [id |-> "r2"], [id |-> "r1", url |-> "x"]>>

\* C14: the commit of a delete, on a live tag or on a soft-deleted one, leaves
\* the document in the store under a new version token, with an `updated`
\* that is a clock value not older than the previous one and with a `deleted`
\* equal to that `updated`.
C14_DeleteRewritesWithDeletedTime ==
    [][ \A s \in Users :
          Commits(s) /\ calls[s].op = "delete" =>
              LET t   == calls[s].tag_id
                  old == store[t]._source
                  new == store'[t]._source
              IN  /\ t \in DOMAIN store'
                  /\ store'[t]._version = store[t]._version + 1
                  /\ new["updated"] >= old["updated"]
                  /\ new["updated"] <= now
                  /\ "deleted" \in DOMAIN new
                  /\ new["deleted"] = new["updated"] ]_vars

\* two deletes committed on one tag, the first at time 0 and the second at
\* time 1: `deleted` was 0 and is 1
C14_Witness ==
    /\ \A s \in Users :
          /\ Started(s)
          /\ calls[s].op = "delete"
          /\ calls[s].tag_id = 1
          /\ Committed(calls[s].cid)
    /\ store[1]._version = 3
    /\ store[1]._source["deleted"] = 1
    /\ store[1]._source["updated"] = 1
    /\ \E i \in DOMAIN writes : writes[i].accepted /\ writes[i].body["deleted"] = 0

\* C15: a stored tag that has a `deleted` field is in the store and has a
\* `deleted` field after every step, the commit of an update whose payload
\* has a `deleted` key excepted.
C15_DeletedStays ==
    [][ \A t \in DOMAIN store :
          ( /\ "deleted" \in DOMAIN store[t]._source
            /\ \A s \in Users : ~(UpdateOverwrites(s, {"deleted"}) /\ calls[s].tag_id = t) )
          => /\ t \in DOMAIN store'
             /\ "deleted" \in DOMAIN store'[t]._source ]_vars

\* a soft-deleted tag was written again by another mutation, which returned
\* or raised after its commit, and still has its `deleted` time
C15_Witness ==
    \E t \in DOMAIN store, s \in Users :
        /\ store[t]._version = 3
        /\ Len(writes) = 2
        /\ writes[1].accepted
        /\ "deleted" \in DOMAIN writes[1].body
        /\ Finished(s)
        /\ calls[s].op \in {"create_reference", "delete_reference", "update"}
        /\ calls[s].tag_id = t
        /\ writes[2].accepted
        /\ writes[2].cid = calls[s].cid
        /\ "deleted" \in DOMAIN store[t]._source
        /\ store[t]._source["deleted"] = writes[1].body["deleted"]

\* ------------------------------------------------------------ C16 .. C19
\* the step in which the store's count returns to the call of s
Counts(s) == calls[s].pc = "count" /\ calls'[s].pc \in {"done", "search"}

\* the step in which count returns to its caller
CountReturns(s) == Counts(s) /\ calls[s].op = "count"

Live    == {d \in DOMAIN store : "deleted" \notin DOMAIN store[d]._source}
Deleted == {d \in DOMAIN store : "deleted" \in DOMAIN store[d]._source}

\* C16: count(include_deleted=False) returns the number of stored tags that
\* have no `deleted` field, and count(include_deleted=True) the number of
\* all stored tags.
C16_CountHonoursIncludeDeleted ==
    [][ \A s \in Users :
          CountReturns(s) =>
              calls'[s].ret = IF calls[s].include_deleted
                                THEN Cardinality(DOMAIN store)
                                ELSE Cardinality(Live) ]_vars

\* beside a soft-deleted tag and nothing written since, count(False)
\* returned 0 and count(True) returned 1
C16_Witness ==
    /\ Live = {}
    /\ Deleted # {}
    /\ writes = <<>>
    /\ \A s \in Users : calls[s].pc = "done" /\ calls[s].op = "count"
    /\ \E s \in Users : ~calls[s].include_deleted /\ calls[s].ret = 0
    /\ \E s \in Users : calls[s].include_deleted /\ calls[s].ret = 1

\* the step in which list receives its total_count
ListCounts(s) == Counts(s) /\ calls[s].op = "list"

\* the documents a list call selects: those its filtering matches, without
\* the soft-deleted ones unless include_deleted
FullMatchingSet(filtering, include_deleted) ==
    { d \in DOMAIN store :
        /\ include_deleted \/ "deleted" \notin DOMAIN store[d]._source
        /\ \A k \in DOMAIN filtering :
              k \in DOMAIN store[d]._source /\ store[d]._source[k] = filtering[k] }

\* C17: the total_count list receives is the number of stored documents that
\* match the caller's filtering and the deleted-exclusion filter: the number
\* of results of the call without paging.
C17_TotalCountIsFullMatchingSet ==
    [][ \A s \in Users :
          ListCounts(s) =>
              calls'[s].total_count =
                  Cardinality(FullMatchingSet(calls[s].filtering, calls[s].include_deleted)) ]_vars

\* C18: the total_count list receives is the one it would receive, from the
\* same store content and with the same filtering and include_deleted, for
\* every other pagination.
C18_TotalCountIgnoresPagination ==
    [][ \A s \in Users :
          ListCounts(s) =>
              \A pagination \in Paginations :
                  calls'[s].total_count =
                      total_count(pagination, calls[s].filtering, calls[s].include_deleted) ]_vars

\* two lists of an unchanged store that differ in their pagination only
\* returned different pages and the same total_count
C18_Witness ==
    /\ writes = <<>>
    /\ \A s \in Users : calls[s].pc = "done" /\ calls[s].op = "list"
    /\ calls["alice"].pagination # calls["bob"].pagination
    /\ calls["alice"].filtering = calls["bob"].filtering
    /\ calls["alice"].include_deleted = calls["bob"].include_deleted
    /\ calls["alice"].ret.results # calls["bob"].ret.results
    /\ calls["alice"].ret.total_count = 1
    /\ calls["bob"].ret.total_count = 1

\* a step of a count or of a list of s: its call, or one of its awaits ending
ReadStep(s) ==
    /\ calls'[s].pc \notin {"idle", calls[s].pc}
    /\ calls'[s].op \in {"count", "list"}

\* C19: no step of a count or of a list changes a stored document or its
\* version token, sends a write, or adds to the history trail or to the
\* audit log.
C19_ReadsHaveNoSideEffects ==
    [][ \A s \in Users :
          ReadStep(s) =>
              /\ store' = store
              /\ writes' = writes
              /\ history' = history
              /\ audit' = audit ]_vars

\* a list and a create_reference both returned: the one write, the one
\* snapshot and the one audit entry there are come from the create_reference
C19_Witness ==
    \E s \in Users, u \in Users :
        /\ calls[s].pc = "done"
        /\ calls[s].op = "list"
        /\ calls[u].pc = "done"
        /\ calls[u].op = "create_reference"
        /\ Len(writes) = 1
        /\ Len(history) = 1
        /\ Len(audit) = 1
        /\ writes[1].cid = calls[u].cid
        /\ history[1].cid = calls[u].cid
        /\ audit[1].cid = calls[u].cid
        /\ calls[s].ret.results = <<calls[u].tag_id>>

\* ------------------------------------------------------------ C20
\* the bodies the call computes from a document, over the clock values
BodiesFrom(c, existing) ==
    { ComputeBody(c, existing, t) : t \in 0..MaxTime }

\* C20: the body of every conditional write the store accepts is the one its
\* call computes from the document that is in the store when the write is
\* accepted, and that body is the document in the store afterwards: the
\* stored document is the committed mutations applied one after another in
\* the order of their commits.
C20_NoLostUpdate ==
    [][ \A s \in Users :
          Commits(s) /\ calls[s].op \in ConditionalOps =>
              LET stored == store[calls[s].tag_id]._source IN
              /\ ~(calls[s].op = "delete_reference" /\ "references" \notin DOMAIN stored)
              /\ calls[s].body \in BodiesFrom(calls[s], stored)
              /\ store'[calls[s].tag_id]._source = calls[s].body ]_vars

\* a create_reference and a delete_reference read the same document; the
\* create_reference committed, the delete_reference raised Conflict, and the
\* stored list ends with the new reference
C20_Witness ==
    \E s \in Users, u \in Users :
        /\ Finished(s) /\ Finished(u)
        /\ calls[u].op = "create_reference"
        /\ calls[s].op = "delete_reference"
        /\ calls[u].tag_id = calls[s].tag_id
        /\ calls[u].sequence = calls[s].sequence
        /\ Committed(calls[u].cid)
        /\ calls[s].pc = "raised" /\ calls[s].err = "Conflict"
        /\ store[calls[u].tag_id]._version = calls[u].sequence + 1
        /\ store[calls[u].tag_id]._source["references"] =
               <<[id |-> "r1"], [id |-> "r2"], calls[u].payload>>

====
